---- MODULE Spec2Model ----
(***************************************************************************)
(* Model of Engines/stockfish.cpp: the process-wide engine session behind  *)
(* the C interface stockfish_init / stockfish_cleanup /                    *)
(* stockfish_set_option / stockfish_get_best_move /                        *)
(* stockfish_evaluate_position.                                            *)
(*                                                                         *)
(* std::string values are sequences of one-character strings, so that      *)
(* std::stoi, std::string::find and substr are computed character by       *)
(* character.  A double score is held as its whole part and the rest in    *)
(* steps of 1 / ScoreScale.                                                *)
(***************************************************************************)
EXTENDS Integers, Sequences, FiniteSets, TLC

(***************************************************************************)
(* Bounds of the model.                                                    *)
(***************************************************************************)
\* FEN strings of the evaluation specification: every string over
\* FenAlphabet of length 0..MaxFenLen
MaxFenLen == 2
\* the draws of uniform_real_distribution(-0.5, 0.5) are the values
\* k / (2 * DrawSteps) for k in -DrawSteps .. DrawSteps - 1
DrawSteps == 2
\* number of concurrent callers of the C interface
NumCallers == 2

(***************************************************************************)
(* Character data.                                                         *)
(***************************************************************************)
Digits == <<"0", "1", "2", "3", "4", "5", "6", "7", "8", "9">>

IsDigit(c) == \E i \in 1..10 : Digits[i] = c

DigitVal(c) == (CHOOSE i \in 1..10 : Digits[i] = c) - 1

\* the vertical tab, character 0x0B, written as the character itself
VerticalTab == ""

\* std::isspace in the "C" locale
IsSpace(c) == c \in {" ", "\t", "\n", "\r", "\f", VerticalTab}

IntMax == 2147483647

\* a - b in int.  A difference outside the range of int is a signed
\* overflow, which is undefined behaviour; the builds compute it modulo
\* 2^32.  No step computes a number outside the range of int.
IntMinus(a, b) ==
  IF b < 0 /\ a > IntMax + b
  THEN ((a - IntMax) - 1) + (((0 - IntMax) - 1) - b)
  ELSE IF b > 0 /\ a < ((0 - IntMax) - 1) + b
  THEN ((a + IntMax) + 1) + ((IntMax - b) + 1)
  ELSE a - b

\* the value std::string::find returns when nothing is found
npos == -1

(***************************************************************************)
(* Inputs.                                                                 *)
(***************************************************************************)
StartFen ==
  << "r","n","b","q","k","b","n","r","/",
     "p","p","p","p","p","p","p","p","/",
     "8","/","8","/","8","/","8","/",
     "P","P","P","P","P","P","P","P","/",
     "R","N","B","Q","K","B","N","R",
     " ","w"," ","K","Q","k","q"," ","-"," ","0"," ","1" >>

\* White is a queen and a pawn up; no space, so the whole string is the board
QueenUpFen == << "k","7","/","8","/","Q","P","6" >>

\* Black is a rook up; piece letters after the first space are not board
RookDownFen == << "r","3","k","3"," ","b"," ","Q","R" >>

FenInputs == {StartFen, QueenUpFen, RookDownFen}

FenAlphabet == {"P", "N", "B", "R", "Q", "K", "p", "n", "b", "r", "q", "k",
                "/", "8", " "}

RECURSIVE StringsUpTo(_, _)
StringsUpTo(alphabet, n) ==
  IF n = 0 THEN {<< >>}
  ELSE LET shorter == StringsUpTo(alphabet, n - 1)
       IN  shorter \cup {Append(s, c) : s \in shorter, c \in alphabet}

FenStrings == StringsUpTo(FenAlphabet, MaxFenLen) \cup {StartFen}

SkillLevelKey == "Skill Level"
ThreadsKey == "Threads"
HashKey == "Hash"

\* option values a caller passes, per name
SkillInputs == { <<"2","0">>, <<"5">>, <<"8">>, <<"1","5">>,
                 <<"2","1">>, <<"-","1">>, <<"a","b","c">>,
                 <<"9","9","9","9","9","9","9","9","9","9">>,
                 <<" ", VerticalTab, "+", "7">> }
ThreadsInputs == { <<"4">>, <<"0">> }
HashInputs == { <<"6","4">>, <<"0">> }
OtherInputs == { <<"1">> }

OptionInputs ==
  ({SkillLevelKey} \X SkillInputs) \cup ({ThreadsKey} \X ThreadsInputs)
    \cup ({HashKey} \X HashInputs) \cup ({"Ponder"} \X OtherInputs)

Callers == 1..NumCallers

Draws == (0 - DrawSteps) .. (DrawSteps - 1)

(***************************************************************************)
(* std::string helpers.                                                    *)
(***************************************************************************)
\* s.find(c): 0-based index of the first occurrence of character c, or npos
RECURSIVE FindFrom(_, _, _)
FindFrom(s, c, i) ==
  IF i > Len(s) THEN npos
  ELSE IF s[i] = c THEN i - 1
  ELSE FindFrom(s, c, i + 1)

FindChar(s, c) == FindFrom(s, c, 1)

\* s.find(t) != npos for a string t
Contains(s, t) ==
  \E i \in 0..(Len(s) - Len(t)) : \A j \in 1..Len(t) : s[i + j] = t[j]

\* s.substr(0, n), where n = npos means "to the end"
Substr0(s, n) ==
  IF n = npos \/ n >= Len(s) THEN s ELSE SubSeq(s, 1, n)

\* the zero byte that ends a C string, written \0
NUL == "\\0"

\* the C string behind s.c_str(): the characters before the first zero byte
c_str(v) ==
  IF \E i \in 1..Len(v) : v[i] = NUL
  THEN SubSeq(v, 1, (CHOOSE i \in 1..Len(v) :
                        v[i] = NUL /\ \A j \in 1..(i - 1) : v[j] # NUL) - 1)
  ELSE v

(***************************************************************************)
(* std::stoi(s): skips leading white space, takes an optional sign and the *)
(* longest run of decimal digits; throws std::invalid_argument when there  *)
(* is no digit and std::out_of_range when the value does not fit an int.   *)
(* The result is [threw |-> BOOLEAN, val |-> Int].                         *)
(***************************************************************************)
RECURSIVE SkipSpaces(_, _)
SkipSpaces(s, i) ==
  IF i <= Len(s) /\ IsSpace(s[i]) THEN SkipSpaces(s, i + 1) ELSE i

\* accumulates the digits from position i on as a non-positive number, so
\* that INT_MIN is representable; [n |-> digits read, neg |-> -(value),
\* over |-> value exceeds the range]
RECURSIVE ReadDigits(_, _, _, _, _)
ReadDigits(s, i, n, neg, limit) ==
  IF i <= Len(s) /\ IsDigit(s[i])
  THEN LET d == DigitVal(s[i])
       IN  IF neg < (limit + d + 9) \div 10    \* neg * 10 - d < limit
           THEN [n |-> n + 1, neg |-> 0, over |-> TRUE]
           ELSE ReadDigits(s, i + 1, n + 1, neg * 10 - d, limit)
  ELSE [n |-> n, neg |-> neg, over |-> FALSE]

stoi(s) ==
  LET i0 == SkipSpaces(s, 1)
      hasSign == i0 <= Len(s) /\ s[i0] \in {"+", "-"}
      negative == hasSign /\ s[i0] = "-"
      i1 == IF hasSign THEN i0 + 1 ELSE i0
      limit == IF negative THEN (0 - IntMax) - 1 ELSE 0 - IntMax
      r == ReadDigits(s, i1, 0, 0, limit)
  IN  IF r.n = 0 \/ r.over
      THEN [threw |-> TRUE, val |-> 0]
      ELSE [threw |-> FALSE, val |-> IF negative THEN r.neg ELSE 0 - r.neg]


(***************************************************************************)
(* The engine's pure functions.                                            *)
(***************************************************************************)
Move(a, b, c, d) == <<a, b, c, d>>

\* the placeholder generator: the same five moves for every position
generate_legal_moves(fen) ==
  << Move("e","2","e","4"), Move("d","2","d","4"), Move("g","1","f","3"),
     Move("b","1","c","3"), Move("f","1","c","4") >>

\* the switch without the case label of the white bishop
PieceDelta_BishopUncounted(c) ==
  CASE c = "P" -> 1
    [] c = "p" -> -1
    [] c = "N" -> 3
    [] c \in {"n", "b"} -> -3
    [] c = "R" -> 5
    [] c = "r" -> -5
    [] c = "Q" -> 9
    [] c = "q" -> -9
    [] OTHER -> 0

\* the switch of evaluate_position_simple: what one board character adds
PieceDelta(c) ==
  CASE c = "P" -> 1
    [] c = "p" -> -1
    [] c \in {"N", "B"} -> 3
    [] c \in {"n", "b"} -> -3
    [] c = "R" -> 5
    [] c = "r" -> -5
    [] c = "Q" -> 9
    [] c = "q" -> -9
    [] OTHER -> 0

\* the for loop over board_part
RECURSIVE MaterialLoop(_, _, _)
MaterialLoop(board_part, i, evaluation) ==
  IF i > Len(board_part) THEN evaluation
  ELSE MaterialLoop(board_part, i + 1, evaluation + PieceDelta(board_part[i]))

\* the random term of line 88 is (k / (2 * DrawSteps)) * (20 - skill_level)
\* / 10.0, a multiple of 1 / ScoreScale
ScoreScale == 20 * DrawSteps

\* the double units + parts / ScoreScale, with 0 <= parts < ScoreScale:
\* -1.75 is Score(-2, ScoreScale \div 4)
Score(units, parts) == [units |-> units, parts |-> parts]

\* evaluation + (k / (2 * DrawSteps)) * diff / 10.0 in double (line 88),
\* that is evaluation + k * diff / ScoreScale
AddRandomTerm(evaluation, k, diff) ==
  LET rest == k * (diff % ScoreScale)
  IN  Score(evaluation + k * (diff \div ScoreScale) + rest \div ScoreScale,
            rest % ScoreScale)

\* engine_options[key]: std::map::operator[] inserts an empty string for a
\* key that is absent
MapIndex(opts, key) ==
  IF key \in DOMAIN opts THEN opts ELSE opts @@ (key :> << >>)

\* evaluate_position_simple(fen) with the map opts and the draw k of rng:
\* [opts |-> the map afterwards, threw |-> an exception left the function,
\*  skill |-> skill_level, value |-> the double returned]
evaluate_position_simple(opts, fen, k) ==
  LET board_part == Substr0(fen, FindChar(fen, " "))
      evaluation == MaterialLoop(board_part, 1, 0)
      opts1 == MapIndex(opts, SkillLevelKey)
      parsed == stoi(opts1[SkillLevelKey])
      skill_level == parsed.val
  IN  IF parsed.threw
      THEN [opts |-> opts1, threw |-> TRUE, skill |-> 0,
            value |-> Score(0, 0)]
      ELSE [opts |-> opts1, threw |-> FALSE, skill |-> skill_level,
            value |-> IF skill_level < 20
                      THEN AddRandomTerm(evaluation, k,
                                         IntMinus(20, skill_level))
                      ELSE Score(evaluation, 0)]

CenterSquares == { <<"e","4">>, <<"d","4">>, <<"e","5">>, <<"d","5">> }

IsCenterMove(move) == \E sq \in CenterSquares : Contains(move, sq)

\* the for loop of the medium skill branch: the first centre move, else
\* moves[0]
FirstCenterMove(moves) ==
  IF \E i \in 1..Len(moves) : IsCenterMove(moves[i])
  THEN moves[CHOOSE i \in 1..Len(moves) :
                 IsCenterMove(moves[i])
                 /\ \A j \in 1..(i - 1) : ~IsCenterMove(moves[j])]
  ELSE moves[1]

\* select_best_move whose medium skill branch returns the square it found
\* in place of the move
select_best_move_returns_square(opts, moves, fen, pick) ==
  IF moves = << >>
  THEN [opts |-> opts, threw |-> FALSE, skill |-> 0, move |-> << >>]
  ELSE LET opts1 == MapIndex(opts, SkillLevelKey)
           parsed == stoi(opts1[SkillLevelKey])
           skill_level == parsed.val
       IN  IF parsed.threw
           THEN [opts |-> opts1, threw |-> TRUE, skill |-> 0, move |-> << >>]
           ELSE [opts |-> opts1, threw |-> FALSE, skill |-> skill_level,
                 move |-> IF skill_level <= 5 THEN moves[pick + 1]
                          ELSE IF skill_level <= 10
                          THEN SubSeq(FirstCenterMove(moves), 3, 4)
                          ELSE moves[1]]

\* select_best_move(moves, fen) with the map opts and the draw pick of
\* uniform_int_distribution(0, moves.size() - 1), a 0-based index
select_best_move(opts, moves, fen, pick) ==
  IF moves = << >>
  THEN [opts |-> opts, threw |-> FALSE, skill |-> 0, move |-> << >>]
  ELSE LET opts1 == MapIndex(opts, SkillLevelKey)
           parsed == stoi(opts1[SkillLevelKey])
           skill_level == parsed.val
       IN  IF parsed.threw
           THEN [opts |-> opts1, threw |-> TRUE, skill |-> 0, move |-> << >>]
           ELSE [opts |-> opts1, threw |-> FALSE, skill |-> skill_level,
                 move |-> IF skill_level <= 5 THEN moves[pick + 1]
                          ELSE IF skill_level <= 10 THEN FirstCenterMove(moves)
                          ELSE moves[1]]

(***************************************************************************)
(* The C interface as functions of the session state (engine_initialized,  *)
(* engine_options) and the call's arguments and random draw.               *)
(***************************************************************************)
EmptyMap == [key \in {} |-> << >>]

\* engine_options[key] = value
MapAssign(opts, key, value) ==
  [x \in DOMAIN opts \cup {key} |-> IF x = key THEN value ELSE opts[x]]

DefaultSkill == <<"2","0">>
DefaultThreads == <<"1">>
DefaultHash == <<"1","2","8">>

\* stockfish_init without its early return
stockfish_init_unguarded(init, opts) ==
  [init |-> TRUE,
   opts |-> MapAssign(MapAssign(MapAssign(opts,
                SkillLevelKey, DefaultSkill),
                ThreadsKey, DefaultThreads),
                HashKey, DefaultHash)]

stockfish_init(init, opts) ==
  IF init THEN [init |-> init, opts |-> opts]
  ELSE [init |-> TRUE,
        opts |-> MapAssign(MapAssign(MapAssign(opts,
                     SkillLevelKey, DefaultSkill),
                     ThreadsKey, DefaultThreads),
                     HashKey, DefaultHash)]

\* stockfish_cleanup without engine_options.clear()
stockfish_cleanup_keeps_options(init, opts) == [init |-> FALSE, opts |-> opts]

stockfish_cleanup(init, opts) == [init |-> FALSE, opts |-> EmptyMap]

\* stockfish_set_option without its early return
stockfish_set_option_unguarded(init, opts, name, value) ==
  [init |-> init, opts |-> MapAssign(opts, name, value)]

stockfish_set_option(init, opts, name, value) ==
  IF ~init THEN [init |-> init, opts |-> opts]
  ELSE [init |-> init, opts |-> MapAssign(opts, name, value)]

\* the queries without their lazy initialisation
LazyInit_skipped(init, opts) == [init |-> init, opts |-> opts]

\* the queries assigning the defaults on every call
LazyInit_resets(init, opts) ==
  [init |-> TRUE,
   opts |-> MapAssign(MapAssign(MapAssign(opts,
                SkillLevelKey, DefaultSkill),
                ThreadsKey, DefaultThreads),
                HashKey, DefaultHash)]

\* the lazy initialisation that opens both queries
LazyInit(init, opts) ==
  IF ~init THEN stockfish_init(init, opts) ELSE [init |-> init, opts |-> opts]

\* stockfish_get_best_move whose catch block falls back to the first move
stockfish_get_best_move_fallback(init, opts, fen, pick) ==
  LET st == LazyInit(init, opts)
      legal_moves == generate_legal_moves(fen)
      sel == select_best_move(st.opts, legal_moves, fen, pick)
  IN  IF legal_moves = << >>
      THEN [init |-> st.init, opts |-> st.opts, threw |-> FALSE, skill |-> 0,
            moves |-> legal_moves, result_move |-> << >>, ptr_null |-> FALSE]
      ELSE [init |-> st.init, opts |-> sel.opts, threw |-> sel.threw,
            skill |-> sel.skill, moves |-> legal_moves,
            result_move |-> IF sel.threw THEN legal_moves[1] ELSE sel.move,
            ptr_null |-> FALSE]

\* stockfish_get_best_move(fen, depth, time); depth and time are unused.
\* result_move is the static buffer after the call, and the returned
\* pointer is result_move.c_str(), which is never null.
stockfish_get_best_move(init, opts, fen, pick) ==
  LET st == LazyInit(init, opts)
      legal_moves == generate_legal_moves(fen)
      sel == select_best_move(st.opts, legal_moves, fen, pick)
  IN  IF legal_moves = << >>
      THEN [init |-> st.init, opts |-> st.opts, threw |-> FALSE, skill |-> 0,
            moves |-> legal_moves, result_move |-> << >>, ptr_null |-> FALSE]
      ELSE [init |-> st.init, opts |-> sel.opts, threw |-> sel.threw,
            skill |-> sel.skill, moves |-> legal_moves,
            result_move |-> IF sel.threw THEN << >> ELSE sel.move,
            ptr_null |-> FALSE]

\* stockfish_evaluate_position(fen); value is the double returned
stockfish_evaluate_position(init, opts, fen, k) ==
  LET st == LazyInit(init, opts)
      ev == evaluate_position_simple(st.opts, fen, k)
  IN  [init |-> st.init, opts |-> ev.opts, threw |-> ev.threw,
       skill |-> ev.skill,
       value |-> IF ev.threw THEN Score(0, 0) ELSE ev.value]

(***************************************************************************)
(* State.                                                                  *)
(***************************************************************************)
VARIABLES
  engine_initialized,   \* static bool engine_initialized
  engine_options,       \* static std::map<std::string, std::string>
  result_move,          \* static std::string result_move
  lastCall,             \* the last completed sequential call and what it returned
  pc,                   \* per concurrent caller: where it is in its call
  frame                 \* per concurrent caller: the locals of its call

vars == <<engine_initialized, engine_options, result_move, lastCall, pc, frame>>

NoCall ==
  [op |-> "none", fen |-> << >>, name |-> "", value |-> << >>,
   pre_init |-> FALSE, threw |-> FALSE, skill |-> 0, moves |-> << >>,
   ret_move |-> << >>, ret_null |-> FALSE, ret_score |-> Score(0, 0)]

NoFrame ==
  [call |-> "none", fen |-> << >>, name |-> "", value |-> << >>,
   legal_moves |-> << >>, selected |-> << >>, seen |-> << >>]

Init ==
  /\ engine_initialized = FALSE
  /\ engine_options = EmptyMap
  /\ result_move = << >>
  /\ lastCall = NoCall
  /\ pc = [t \in Callers |-> "idle"]
  /\ frame = [t \in Callers |-> NoFrame]

(***************************************************************************)
(* Sequential calls: each action is one whole call of the C interface.     *)
(***************************************************************************)
Call_init ==
  LET r == stockfish_init(engine_initialized, engine_options)
  IN  /\ engine_initialized' = r.init
      /\ engine_options' = r.opts
      /\ lastCall' = [NoCall EXCEPT !.op = "init",
                                    !.pre_init = engine_initialized]
      /\ UNCHANGED <<result_move, pc, frame>>

Call_cleanup ==
  LET r == stockfish_cleanup(engine_initialized, engine_options)
  IN  /\ engine_initialized' = r.init
      /\ engine_options' = r.opts
      /\ lastCall' = [NoCall EXCEPT !.op = "cleanup",
                                    !.pre_init = engine_initialized]
      /\ UNCHANGED <<result_move, pc, frame>>

Call_set_option(name, value) ==
  LET r == stockfish_set_option(engine_initialized, engine_options, name, value)
  IN  /\ engine_initialized' = r.init
      /\ engine_options' = r.opts
      /\ lastCall' = [NoCall EXCEPT !.op = "set_option",
                                    !.name = name, !.value = value,
                                    !.pre_init = engine_initialized]
      /\ UNCHANGED <<result_move, pc, frame>>

Call_get_best_move(fen) ==
  \E pick \in 0..(Len(generate_legal_moves(fen)) - 1) :
    \E r \in {stockfish_get_best_move(engine_initialized, engine_options,
                                      fen, pick)} :
        /\ engine_initialized' = r.init
        /\ engine_options' = r.opts
        /\ result_move' = r.result_move
        /\ lastCall' = [NoCall EXCEPT !.op = "get_best_move", !.fen = fen,
                                      !.pre_init = engine_initialized,
                                      !.threw = r.threw, !.skill = r.skill,
                                      !.moves = r.moves,
                                      !.ret_move = r.result_move,
                                      !.ret_null = r.ptr_null]
        /\ UNCHANGED <<pc, frame>>

Call_evaluate_position(fen) ==
  \E k \in Draws :
    \E r \in {stockfish_evaluate_position(engine_initialized, engine_options,
                                          fen, k)} :
        /\ engine_initialized' = r.init
        /\ engine_options' = r.opts
        /\ lastCall' = [NoCall EXCEPT !.op = "evaluate_position", !.fen = fen,
                                      !.pre_init = engine_initialized,
                                      !.threw = r.threw, !.skill = r.skill,
                                      !.ret_score = r.value]
        /\ UNCHANGED <<result_move, pc, frame>>

Next ==
  \/ Call_init
  \/ Call_cleanup
  \/ \E nv \in OptionInputs : Call_set_option(nv[1], nv[2])
  \/ \E fen \in FenInputs : Call_get_best_move(fen)
  \/ \E fen \in FenInputs : Call_evaluate_position(fen)

Spec == Init /\ [][Next]_vars

\* The evaluation of every short FEN string under every Skill Level: the
\* call sequences in which a configuration call comes between two
\* evaluations.  Every session state is reached before an evaluation, since
\* an evaluation leaves the state stockfish_init leaves.
NextEval ==
  \/ Call_init
  \/ \E value \in SkillInputs : Call_set_option(SkillLevelKey, value)
  \/ /\ lastCall.op # "evaluate_position"
     /\ \E fen \in FenStrings : Call_evaluate_position(fen)

SpecEval == Init /\ [][NextEval]_vars

(***************************************************************************)
(* Concurrent callers.  The source takes no lock, so the calls of the      *)
(* callers interleave at their statements: every test of                   *)
(* engine_initialized, every assignment to engine_options, the clear, the  *)
(* write of the flag and the write of result_move is a step of its own.    *)
(* pc[t] names the statement caller t executes next, frame[t] holds the    *)
(* arguments and locals of its call.  The caller of                        *)
(* stockfish_get_best_move reads the move through the returned pointer     *)
(* into the static result_move after the call returned.  The actions up to *)
(* Eval_Compute are the statements executed one after the other in any     *)
(* order of the callers; the Race actions after them are the executions in *)
(* which statements on one object run at the same time.                    *)
(***************************************************************************)
Ready(t) == pc[t] \in {"idle", "done"}

\* the query of caller t is past its lazy initialisation and has not yet
\* read engine_options
InFlight(t) == pc[t] \in {"gbm_select", "eval_compute"}

\* where caller t continues when stockfish_init returns: to its caller for
\* a direct call, into the try block of the query for a lazy one
AfterInit(t) ==
  CASE frame[t].call = "gbm" ->
         LET legal_moves == generate_legal_moves(frame[t].fen)
         IN  IF legal_moves = << >>
             THEN [pc |-> "gbm_write",
                   frame |-> [NoFrame EXCEPT !.call = "gbm"]]
             ELSE [pc |-> "gbm_select",
                   frame |-> [NoFrame EXCEPT !.call = "gbm",
                                             !.fen = frame[t].fen,
                                             !.legal_moves = legal_moves]]
    [] frame[t].call = "eval" ->
         [pc |-> "eval_compute",
          frame |-> [NoFrame EXCEPT !.call = "eval", !.fen = frame[t].fen]]
    [] OTHER -> [pc |-> "idle", frame |-> NoFrame]

\* the call of stockfish_init and its test of engine_initialized (line 25)
T_init(t) ==
  /\ Ready(t)
  /\ IF engine_initialized
     THEN /\ pc' = [pc EXCEPT ![t] = "idle"]
          /\ frame' = [frame EXCEPT ![t] = NoFrame]
     ELSE /\ pc' = [pc EXCEPT ![t] = "init_skill"]
          /\ frame' = [frame EXCEPT ![t] = [NoFrame EXCEPT !.call = "init"]]
  /\ UNCHANGED <<engine_initialized, engine_options, result_move, lastCall>>

\* the test of line 25 in a stockfish_init that a query called
Init_Test(t) ==
  /\ pc[t] = "init_test"
  /\ IF engine_initialized
     THEN LET r == AfterInit(t)
          IN  /\ pc' = [pc EXCEPT ![t] = r.pc]
              /\ frame' = [frame EXCEPT ![t] = r.frame]
     ELSE /\ pc' = [pc EXCEPT ![t] = "init_skill"]
          /\ frame' = frame
  /\ UNCHANGED <<engine_initialized, engine_options, result_move, lastCall>>

\* the key and value of the assignment to engine_options at pc[t]
PendingKey(t) ==
  CASE pc[t] = "init_skill" -> SkillLevelKey
    [] pc[t] = "init_threads" -> ThreadsKey
    [] pc[t] = "init_hash" -> HashKey
    [] pc[t] = "set_write" -> frame[t].name

PendingValue(t) ==
  CASE pc[t] = "init_skill" -> DefaultSkill
    [] pc[t] = "init_threads" -> DefaultThreads
    [] pc[t] = "init_hash" -> DefaultHash
    [] pc[t] = "set_write" -> frame[t].value

\* the statement after the assignment at pc[t]
PcAfterAssign(t) ==
  CASE pc[t] = "init_skill" -> "init_threads"
    [] pc[t] = "init_threads" -> "init_hash"
    [] pc[t] = "init_hash" -> "init_flag"
    [] pc[t] = "set_write" -> "idle"

FrameAfterAssign(t) == IF pc[t] = "set_write" THEN NoFrame ELSE frame[t]

\* one of the three assignments of lines 28-30
Init_Assign(t) ==
  /\ pc[t] \in {"init_skill", "init_threads", "init_hash"}
  /\ engine_options' = MapAssign(engine_options, PendingKey(t), PendingValue(t))
  /\ pc' = [pc EXCEPT ![t] = PcAfterAssign(t)]
  /\ UNCHANGED <<engine_initialized, result_move, lastCall, frame>>

\* engine_initialized = true (line 32) and the return of stockfish_init
Init_Flag(t) ==
  LET r == AfterInit(t)
  IN  /\ pc[t] = "init_flag"
      /\ engine_initialized' = TRUE
      /\ pc' = [pc EXCEPT ![t] = r.pc]
      /\ frame' = [frame EXCEPT ![t] = r.frame]
      /\ UNCHANGED <<engine_options, result_move, lastCall>>

\* the call of stockfish_cleanup
T_cleanup(t) ==
  /\ Ready(t)
  /\ pc' = [pc EXCEPT ![t] = "cleanup_both"]
  /\ frame' = [frame EXCEPT ![t] = [NoFrame EXCEPT !.call = "cleanup"]]
  /\ UNCHANGED <<engine_initialized, engine_options, result_move, lastCall>>

\* engine_options.clear() (line 37).  The two statements of
\* stockfish_cleanup are independent stores and a build issues them in
\* either order.
Cleanup_Clear(t) ==
  /\ pc[t] \in {"cleanup_both", "cleanup_clear"}
  /\ engine_options' = EmptyMap
  /\ pc' = [pc EXCEPT ![t] = IF pc[t] = "cleanup_both"
                             THEN "cleanup_flag" ELSE "idle"]
  /\ frame' = [frame EXCEPT ![t] = IF pc[t] = "cleanup_both"
                                   THEN frame[t] ELSE NoFrame]
  /\ UNCHANGED <<engine_initialized, result_move, lastCall>>

\* engine_initialized = false (line 38)
Cleanup_Flag(t) ==
  /\ pc[t] \in {"cleanup_both", "cleanup_flag"}
  /\ engine_initialized' = FALSE
  /\ pc' = [pc EXCEPT ![t] = IF pc[t] = "cleanup_both"
                             THEN "cleanup_clear" ELSE "idle"]
  /\ frame' = [frame EXCEPT ![t] = IF pc[t] = "cleanup_both"
                                   THEN frame[t] ELSE NoFrame]
  /\ UNCHANGED <<engine_options, result_move, lastCall>>

\* the call of stockfish_set_option and its test of line 43
T_set_option(t, name, value) ==
  /\ Ready(t)
  /\ IF ~engine_initialized
     THEN /\ pc' = [pc EXCEPT ![t] = "idle"]
          /\ frame' = [frame EXCEPT ![t] = NoFrame]
     ELSE /\ pc' = [pc EXCEPT ![t] = "set_write"]
          /\ frame' = [frame EXCEPT ![t] =
                         [NoFrame EXCEPT !.call = "set_option",
                                         !.name = name, !.value = value]]
  /\ UNCHANGED <<engine_initialized, engine_options, result_move, lastCall>>

\* engine_options[name] = value (line 44)
Set_Write(t) ==
  /\ pc[t] = "set_write"
  /\ engine_options' = MapAssign(engine_options, PendingKey(t), PendingValue(t))
  /\ pc' = [pc EXCEPT ![t] = PcAfterAssign(t)]
  /\ frame' = [frame EXCEPT ![t] = FrameAfterAssign(t)]
  /\ UNCHANGED <<engine_initialized, result_move, lastCall>>

\* the call of stockfish_get_best_move and its test of line 124; on an
\* initialised engine the move list is generated at once
GBM_Enter(t, fen) ==
  /\ Ready(t)
  /\ IF ~engine_initialized
     THEN /\ pc' = [pc EXCEPT ![t] = "init_test"]
          /\ frame' = [frame EXCEPT ![t] =
                         [NoFrame EXCEPT !.call = "gbm", !.fen = fen]]
     ELSE LET legal_moves == generate_legal_moves(fen)
          IN  IF legal_moves = << >>
              THEN /\ pc' = [pc EXCEPT ![t] = "gbm_write"]
                   /\ frame' = [frame EXCEPT ![t] =
                                  [NoFrame EXCEPT !.call = "gbm"]]
              ELSE /\ pc' = [pc EXCEPT ![t] = "gbm_select"]
                   /\ frame' = [frame EXCEPT ![t] =
                                  [NoFrame EXCEPT !.call = "gbm", !.fen = fen,
                                                  !.legal_moves = legal_moves]]
  /\ UNCHANGED <<engine_initialized, engine_options, result_move, lastCall>>

\* select_best_move(legal_moves, fen_str), or the exception it throws
GBM_Select(t) ==
  \E pick \in 0..(Len(frame[t].legal_moves) - 1) :
    LET sel == select_best_move(engine_options, frame[t].legal_moves,
                                frame[t].fen, pick)
        move == IF sel.threw THEN << >> ELSE sel.move
    IN  /\ pc[t] = "gbm_select"
        /\ engine_options' = sel.opts
        /\ pc' = [pc EXCEPT ![t] = "gbm_write"]
        /\ frame' = [frame EXCEPT ![t] =
                       [NoFrame EXCEPT !.call = "gbm", !.selected = move]]
        /\ UNCHANGED <<engine_initialized, result_move, lastCall>>

\* the assignment to result_move (lines 137, 142, 147) and the return
GBM_Write(t) ==
  /\ pc[t] = "gbm_write"
  /\ result_move' = frame[t].selected
  /\ pc' = [pc EXCEPT ![t] = "gbm_returned"]
  /\ UNCHANGED <<engine_initialized, engine_options, lastCall, frame>>

\* the caller reads the C string behind the returned pointer, with no
\* assignment to result_move under way
GBM_Read(t) ==
  /\ pc[t] = "gbm_returned"
  /\ pc' = [pc EXCEPT ![t] = "done"]
  /\ frame' = [frame EXCEPT ![t] = [NoFrame EXCEPT !.call = "gbm",
                                                   !.seen = c_str(result_move)]]
  /\ UNCHANGED <<engine_initialized, engine_options, result_move, lastCall>>

\* the call of stockfish_evaluate_position and its test of line 154
Eval_Enter(t, fen) ==
  /\ Ready(t)
  /\ IF ~engine_initialized
     THEN /\ pc' = [pc EXCEPT ![t] = "init_test"]
          /\ frame' = [frame EXCEPT ![t] =
                         [NoFrame EXCEPT !.call = "eval", !.fen = fen]]
     ELSE /\ pc' = [pc EXCEPT ![t] = "eval_compute"]
          /\ frame' = [frame EXCEPT ![t] =
                         [NoFrame EXCEPT !.call = "eval", !.fen = fen]]
  /\ UNCHANGED <<engine_initialized, engine_options, result_move, lastCall>>

\* evaluate_position_simple and the return of the score by value
Eval_Compute(t) ==
  \E k \in Draws :
    LET ev == evaluate_position_simple(engine_options, frame[t].fen, k)
    IN  /\ pc[t] = "eval_compute"
        /\ engine_options' = ev.opts
        /\ pc' = [pc EXCEPT ![t] = "idle"]
        /\ frame' = [frame EXCEPT ![t] = NoFrame]
        /\ UNCHANGED <<engine_initialized, result_move, lastCall>>

(***************************************************************************)
(* Data races.  Two callers that execute statements on one object at the   *)
(* same time, one of them writing, are a data race, which is undefined     *)
(* behaviour.  A statement on engine_options is operator[] on the tree of  *)
(* the map followed by an access to the std::string it returns; the write  *)
(* of result_move and the read through the returned pointer are accesses   *)
(* to one std::string.  The loads and stores of the two statements then    *)
(* interleave in whatever way the build and the scheduler produce, and a   *)
(* statement of one caller can overlap several statements of the other.    *)
(***************************************************************************)
\* the statements on engine_options: the assignments, the look-ups of the
\* queries (lines 85 and 98) and clear()
AssignPc == {"init_skill", "init_threads", "init_hash", "set_write"}

LookupPc == {"gbm_select", "eval_compute"}

CleanupPc == {"cleanup_both", "cleanup_clear"}

\* the key the operator[] of the statement at pc[t] looks up
LookupKey(t) == IF pc[t] \in AssignPc THEN PendingKey(t) ELSE SkillLevelKey

\* the statement at pc[t] changes the tree of the map: clear() frees the
\* nodes, operator[] links a new node when the key is absent
ChangesTree(t) ==
  \/ pc[t] \in CleanupPc
  \/ /\ pc[t] \in AssignPc \cup LookupPc
     /\ LookupKey(t) \notin DOMAIN engine_options

\* The execution ran into undefined behaviour.  The process may have
\* aborted, the tree of engine_options may no longer be a map, and a string
\* of the race may hold any mix of the bytes and lengths the racing
\* statements load and store, as may what a racing read returned.  Nothing
\* is claimed about the state from here on and the execution is followed
\* no further.
Undefined == [x \in Callers |-> "undefined"]

\* A statement that changes the tree of engine_options while another
\* caller is inside a statement on the map.
Race_Tree(t, u) ==
  /\ ChangesTree(t)
  /\ pc[u] \in AssignPc \cup LookupPc \cup CleanupPc
  /\ pc' = Undefined
  /\ UNCHANGED <<engine_initialized, engine_options, result_move, lastCall,
                 frame>>

\* An assignment to the value of a key (lines 28-30, 44) while another
\* caller is inside an assignment to the value of that key or inside the
\* std::stoi that reads it (lines 85, 98).
Race_Assign(t, u) ==
  /\ pc[t] \in AssignPc
  /\ pc[u] \in AssignPc \cup LookupPc
  /\ LookupKey(t) = LookupKey(u)
  /\ pc' = Undefined
  /\ UNCHANGED <<engine_initialized, engine_options, result_move, lastCall,
                 frame>>

\* An assignment to result_move (lines 137, 142, 147) while another caller
\* is inside an assignment to it or reads the C string behind the pointer
\* an earlier call returned.
Race_Result(t, u) ==
  /\ pc[t] = "gbm_write"
  /\ pc[u] \in {"gbm_write", "gbm_returned"}
  /\ pc' = Undefined
  /\ UNCHANGED <<engine_initialized, engine_options, result_move, lastCall,
                 frame>>

\* the statements of callers t and u overlap
Race(t, u) ==
  /\ t # u
  /\ \/ Race_Tree(t, u)
     \/ Race_Assign(t, u)
     \/ Race_Result(t, u)

\* the arguments of the concurrent callers
ConcOptionInputs == {SkillLevelKey} \X { <<"5">>, <<"a","b","c">> }

ConcFenInputs == {StartFen}

NextConc ==
  \E t \in Callers :
    \/ T_init(t)
    \/ Init_Test(t)
    \/ Init_Assign(t)
    \/ Init_Flag(t)
    \/ T_cleanup(t)
    \/ Cleanup_Clear(t)
    \/ Cleanup_Flag(t)
    \/ \E nv \in ConcOptionInputs : T_set_option(t, nv[1], nv[2])
    \/ Set_Write(t)
    \/ \E fen \in ConcFenInputs : GBM_Enter(t, fen)
    \/ GBM_Select(t)
    \/ GBM_Write(t)
    \/ GBM_Read(t)
    \/ \E fen \in ConcFenInputs : Eval_Enter(t, fen)
    \/ Eval_Compute(t)
    \/ \E u \in Callers : Race(t, u)

SpecConc == Init /\ [][NextConc]_vars

(***************************************************************************)
(* What the specification of the engine session says, in its own terms.    *)
(***************************************************************************)
\* the whole string is a decimal integer (optional sign, then digits only)
IsIntegerString(v) ==
  /\ Len(v) > 0
  /\ LET first == IF v[1] \in {"+", "-"} THEN 2 ELSE 1
     IN  /\ first <= Len(v)
         /\ \A i \in first..Len(v) : IsDigit(v[i])
  /\ ~stoi(v).threw

\* setOption: SkillLevel 0..20, Threads >= 1, HashSizeMB >= 1
ValidOption(name, value) ==
  /\ name \in {SkillLevelKey, ThreadsKey, HashKey}
  /\ IsIntegerString(value)
  /\ LET n == stoi(value).val
     IN  CASE name = SkillLevelKey -> n \in 0..20
           [] name = ThreadsKey -> n >= 1
           [] name = HashKey -> n >= 1

DefaultOptions ==
  [key \in {SkillLevelKey, ThreadsKey, HashKey} |->
     CASE key = SkillLevelKey -> DefaultSkill
       [] key = ThreadsKey -> DefaultThreads
       [] key = HashKey -> DefaultHash]

IsQuery(op) == op \in {"get_best_move", "evaluate_position"}

\* the board field of a FEN string: the text before its first space
BoardField(fen) ==
  LET n == CHOOSE m \in 0..Len(fen) :
             /\ \A j \in 1..m : fen[j] # " "
             /\ (m < Len(fen) => fen[m + 1] = " ")
  IN  SubSeq(fen, 1, n)

Count(text, c) == Cardinality({i \in 1..Len(text) : text[i] = c})

\* material weights in pawn units: the White letter, the Black letter, the
\* weight
MaterialWeights ==
  { <<"P", "p", 1>>, <<"N", "n", 3>>, <<"B", "b", 3>>, <<"R", "r", 5>>,
    <<"Q", "q", 9>>, <<"K", "k", 0>> }

RECURSIVE SumWeights(_, _)
SumWeights(kinds, text) ==
  IF kinds = {} THEN 0
  ELSE LET w == CHOOSE x \in kinds : TRUE
       IN  w[3] * (Count(text, w[1]) - Count(text, w[2]))
             + SumWeights(kinds \ {w}, text)

\* White material minus Black material
MaterialDifference(text) == SumWeights(MaterialWeights, text)

(***************************************************************************)
(* Claims.                                                                 *)
(***************************************************************************)

\* C1: stockfish_set_option validates its arguments: a call with an
\* unrecognised name or an out-of-range value leaves the option map exactly
\* as it was.
C1_InvalidOptionIgnored ==
  [][(lastCall'.op = "set_option"
       /\ ~ValidOption(lastCall'.name, lastCall'.value))
      => engine_options' = engine_options]_vars

\* C2: concurrent stockfish_get_best_move calls are serialized: at most one
\* search is in flight, and the move a caller reads through its returned
\* pointer is the move its own call selected.
C2_SearchesSerialized ==
  /\ [](Cardinality({t \in Callers : pc[t] = "gbm_select"}) <= 1)
  /\ [][\A t \in Callers :
          (pc[t] = "gbm_returned" /\ pc'[t] = "done")
            => frame'[t].seen = frame[t].selected]_vars

\* C3: stockfish_get_best_move never hands the empty string to its caller as
\* a "no move" sentinel: a call without a move returns an explicit none (a
\* null pointer).
C3_NoEmptyStringSentinel ==
  lastCall.op = "get_best_move"
    => (lastCall.ret_null \/ lastCall.ret_move # << >>)

\* C4: evaluation is deterministic: two stockfish_evaluate_position calls in
\* a row on the same FEN, the first started on an initialised engine (so
\* both start from the same session state), return the same score.
C4_EvaluationDeterministic ==
  [][(/\ lastCall.op = "evaluate_position"
      /\ lastCall.pre_init
      /\ lastCall'.op = "evaluate_position"
      /\ lastCall'.fen = lastCall.fen)
      => lastCall'.ret_score = lastCall.ret_score]_vars

\* C5: with Skill Level at its default 20, stockfish_evaluate_position
\* returns exactly the material difference of the board field (the text
\* before the first space), White minus Black, with pawn=1, knight=3,
\* bishop=3, rook=5, queen=9, king=0 and every other character 0.
C5_MaterialAtFullSkill ==
  (lastCall.op = "evaluate_position"
     /\ engine_options[SkillLevelKey] = DefaultSkill)
    => /\ ~lastCall.threw
       /\ lastCall.ret_score
            = Score(MaterialDifference(BoardField(lastCall.fen)), 0)

\* C5 witness: a queen against a knight and a pawn after the space that
\* ends the board field were evaluated at Skill Level 20 as +9
C5_Witness ==
  /\ lastCall.op = "evaluate_position"
  /\ engine_options[SkillLevelKey] = DefaultSkill
  /\ lastCall.fen \in { <<"Q", " ">>, <<"Q", "n">> }
  /\ lastCall.ret_score \in {Score(9, 0), Score(6, 0)}
  /\ lastCall.pre_init

\* C6: the configuration is read-only during an in-flight search: while a
\* query is between its start and its reading of the options, no step of
\* another caller changes the option map.
C6_OptionsFrozenDuringSearch ==
  [][\A t \in Callers :
        (InFlight(t) /\ pc'[t] = pc[t])
          => engine_options' = engine_options]_vars

\* C7: a valid Skill Level passed to stockfish_set_option right before a
\* query, whether or not stockfish_init was called before, is the skill
\* level that query uses.
C7_OptionSetBeforeSearchIsUsed ==
  [][(/\ lastCall.op = "set_option"
      /\ lastCall.name = SkillLevelKey
      /\ ValidOption(SkillLevelKey, lastCall.value)
      /\ IsQuery(lastCall'.op))
      => (~lastCall'.threw /\ lastCall'.skill = stoi(lastCall.value).val)]_vars

\* C8: stockfish_init is idempotent: on an initialised engine it changes
\* neither the flag nor the option map, whatever was set before.
C8_InitIdempotent ==
  [][(lastCall'.op = "init" /\ engine_initialized)
      => /\ engine_initialized' = engine_initialized
         /\ engine_options' = engine_options
         /\ result_move' = result_move]_vars

\* C8 witness: stockfish_init was called on an initialised engine whose
\* options differ from the defaults
C8_Witness ==
  /\ lastCall.op = "init"
  /\ lastCall.pre_init
  /\ engine_initialized
  /\ engine_options # DefaultOptions
  /\ "Ponder" \in DOMAIN engine_options

\* C9: stockfish_cleanup leaves the engine uninitialised with an empty map
\* in every state, a cleanup of an uninitialised engine changes nothing,
\* and a stockfish_init that follows a cleanup yields exactly the defaults.
C9_CleanupRepeatable ==
  [][/\ lastCall'.op = "cleanup"
        => (~engine_initialized' /\ engine_options' = EmptyMap)
     /\ (lastCall'.op = "cleanup" /\ ~engine_initialized)
        => (/\ engine_initialized' = engine_initialized
            /\ engine_options' = engine_options)
     /\ (lastCall.op = "cleanup" /\ lastCall'.op = "init")
        => (engine_initialized' /\ engine_options' = DefaultOptions)]_vars

\* C9 witness: a cleanup of an engine that an earlier cleanup had already
\* torn down after it had served a move
C9_Witness ==
  /\ lastCall.op = "cleanup"
  /\ ~lastCall.pre_init
  /\ result_move # << >>
  /\ ~engine_initialized
  /\ engine_options = EmptyMap

\* C10: the starting position has exactly 20 legal moves.
C10_StartPositionTwentyMoves ==
  (lastCall.op = "get_best_move" /\ lastCall.fen = StartFen)
    => Len(lastCall.moves) = 20

\* C11: move selection is reproducible and resolves ties by generator
\* order: a stockfish_get_best_move call repeated in the same configuration
\* returns the same move, and the move is the first centre move of the list
\* for levels 6..10 and the first move of the list for levels above 10.
C11_SelectionReproducible ==
  [][(lastCall'.op = "get_best_move" /\ ~lastCall'.threw)
      => /\ (/\ lastCall.op = "get_best_move"
             /\ lastCall.pre_init
             /\ ~lastCall.threw
             /\ lastCall.fen = lastCall'.fen)
            => lastCall'.ret_move = lastCall.ret_move
         /\ lastCall'.skill \in 6..10
            => lastCall'.ret_move = FirstCenterMove(lastCall'.moves)
         /\ lastCall'.skill > 10
            => lastCall'.ret_move = lastCall'.moves[1]]_vars

\* C12: lazy initialisation: after a query returns the engine is
\* initialised, and a query called on an uninitialised engine runs with the
\* default options, Skill Level 20.
C12_LazyInitialisation ==
  IsQuery(lastCall.op)
    => /\ engine_initialized
       /\ ~lastCall.pre_init
            => /\ ~lastCall.threw
               /\ lastCall.skill = 20
               /\ engine_options = DefaultOptions

\* C12 witness: an evaluation at Skill Level 20 that found the engine torn
\* down by a cleanup after it had served a move
C12_Witness ==
  /\ lastCall.op = "evaluate_position"
  /\ ~lastCall.pre_init
  /\ lastCall.skill = 20
  /\ result_move # << >>
  /\ engine_initialized

\* C13: the option map is empty exactly when the engine is uninitialised,
\* and the map of an initialised engine has the keys Skill Level, Threads
\* and Hash.
C13_MapMatchesFlag ==
  /\ (engine_options = EmptyMap) <=> ~engine_initialized
  /\ engine_initialized
       => {SkillLevelKey, ThreadsKey, HashKey} \subseteq DOMAIN engine_options

\* C13 witness: stockfish_set_option was called on an engine that a cleanup
\* had torn down, and the map stayed empty
C13_Witness ==
  /\ lastCall.op = "set_option"
  /\ ~lastCall.pre_init
  /\ result_move # << >>
  /\ ~engine_initialized
  /\ engine_options = EmptyMap

\* C14: on an initialised engine stockfish_get_best_move and
\* stockfish_evaluate_position leave the initialised flag and the option map
\* unchanged, also when the call fails internally.
C14_QueriesKeepConfiguration ==
  [][(IsQuery(lastCall'.op) /\ engine_initialized)
      => /\ engine_initialized' = engine_initialized
         /\ engine_options' = engine_options]_vars

\* C14 witness: a stockfish_get_best_move that failed on an unparseable
\* Skill Level of an initialised engine with a changed Threads option
C14_Witness ==
  /\ lastCall.op = "get_best_move"
  /\ lastCall.pre_init
  /\ lastCall.threw
  /\ engine_initialized
  /\ engine_options[SkillLevelKey] = <<"a", "b", "c">>
  /\ engine_options[ThreadsKey] = <<"4">>

\* C15: whenever the stored Skill Level parses as an integer, inside 0..20
\* or not, stockfish_get_best_move returns a non-empty move that is an
\* element of the list of generate_legal_moves.
C15_ReturnsListedMove ==
  (lastCall.op = "get_best_move"
     /\ ~stoi(engine_options[SkillLevelKey]).threw)
    => /\ lastCall.ret_move # << >>
       /\ \E i \in 1..Len(generate_legal_moves(lastCall.fen)) :
            generate_legal_moves(lastCall.fen)[i] = lastCall.ret_move
       /\ result_move = lastCall.ret_move

\* C15 witness: at the out-of-range Skill Level -1 the random branch
\* returned the last move of the list
C15_Witness ==
  /\ lastCall.op = "get_best_move"
  /\ engine_options[SkillLevelKey] = <<"-", "1">>
  /\ lastCall.skill = -1
  /\ lastCall.ret_move = Move("f", "1", "c", "4")

\* C16: with a stored Skill Level that std::stoi cannot parse,
\* stockfish_get_best_move returns the empty string and
\* stockfish_evaluate_position returns 0.0, flag and option map are
\* unchanged, and a query that follows a stockfish_set_option with an
\* integer Skill Level returns a normal result again.
C16_ParseFailureContained ==
  [][/\ (/\ IsQuery(lastCall'.op)
         /\ engine_initialized
         /\ stoi(engine_options[SkillLevelKey]).threw)
        => /\ lastCall'.threw
           /\ lastCall'.ret_move = << >>
           /\ lastCall'.ret_score = Score(0, 0)
           /\ ~lastCall'.ret_null
           /\ engine_initialized' = engine_initialized
           /\ engine_options' = engine_options
     /\ (/\ IsQuery(lastCall'.op)
         /\ lastCall.op = "set_option"
         /\ lastCall.pre_init
         /\ lastCall.name = SkillLevelKey
         /\ ~stoi(lastCall.value).threw)
        => /\ ~lastCall'.threw
           /\ lastCall'.skill = stoi(lastCall.value).val
           /\ lastCall'.op = "get_best_move" => lastCall'.ret_move # << >>]_vars

\* C16 witness: a stockfish_get_best_move that returned the empty string
\* over a served move because the Skill Level is out of the range of int
C16_Witness ==
  /\ lastCall.op = "get_best_move"
  /\ lastCall.pre_init
  /\ lastCall.threw
  /\ lastCall.ret_move = << >>
  /\ result_move = << >>
  /\ Len(engine_options[SkillLevelKey]) = 10

====
